---- MODULE Spec2Model ----
(***************************************************************************)
(* Model of the stock dashboard: the StockMetaData schema                  *)
(* (models/metadata.py), the data access functions (lib/stock_helper.py)   *)
(* and the page script with its price-difference metric (app.py).          *)
(*                                                                         *)
(* Numbers stand for the floats of the program in whole units; a percentage *)
(* is kept as an exact fraction <<numerator, denominator>> in lowest terms. *)
(* A raised exception is a value [raised |-> <exception class>, ...].       *)
(***************************************************************************)
EXTENDS Integers, Sequences, FiniteSets, TLC

VARIABLES
    info,          \* yf.Ticker(symbol).info handed to StockMetaData(**info)
    stock_md,      \* what get_stock_metadata returned or raised
    response,      \* what yf.download returned
    stock_data,    \* the frame get_stock_data returned / calculate_price_difference reads
    price_change,  \* what calculate_price_difference returned or raised
    today,         \* datetime.datetime.now(), as a calendar date
    date_inputs,   \* the defaults app() gives the two st.sidebar.date_input widgets
    nse_symbols,   \* what nse.nse_eq_symbols() returns
    version,       \* the revision of the provider's quotes and company info
    list_cache,    \* st.cache_data memo of get_stock_list
    data_cache,    \* st.cache_data memo of get_stock_data, keyed by its arguments
    widgets,       \* session state of the selectbox and the two date inputs
    display,       \* what the last run of app() put on the page
    runs           \* number of runs of app() so far

vars == <<info, stock_md, response, stock_data, price_change, today, date_inputs,
          nse_symbols, version, list_cache, data_cache, widgets,
          display, runs>>

pageVars == <<nse_symbols, version, list_cache, data_cache, widgets,
              display, runs>>

Unused == "unused"
NotCalled == [not_called |-> TRUE]

-----------------------------------------------------------------------------
(* Python values                                                            *)

None == [none |-> TRUE]
Num(n) == [num |-> n]
Str(s) == [str |-> s]

IsNone(v) == DOMAIN v = {"none"}
IsNum(v) == DOMAIN v = {"num"}
IsStr(v) == DOMAIN v = {"str"}

Raise(cls, detail) == [raised |-> cls, detail |-> detail]
Return(v) == [returned |-> v]
Raised(r) == "raised" \in DOMAIN r
Returned(r) == "returned" \in DOMAIN r

-----------------------------------------------------------------------------
(* models/metadata.py                                                       *)

RequiredFields == {"uuid", "currentPrice", "fiftyTwoWeekLow", "fiftyTwoWeekHigh"}
PositiveFloatFields == {"currentPrice", "fiftyTwoWeekLow", "fiftyTwoWeekHigh"}
StrDefaultFields == {"longName", "symbol", "longBusinessSummary", "industry",
                     "industryKey", "sector", "sectorKey", "website"}
SchemaFields == RequiredFields \cup {"trailingPE"} \cup StrDefaultFields

\* The default of a field that is not required.
FieldDefault(f) == IF f = "trailingPE" THEN Num(0) ELSE Str("")

\* str: the value must be a string.
ValidateStr(v) == IF IsStr(v) THEN "ok" ELSE "string_type"

\* A PositiveFloat accepting zero (gt=0 read as ge=0).
ValidatePositiveFloatGe(v) ==
    IF ~IsNum(v) THEN "float_type"
    ELSE IF v.num >= 0 THEN "ok" ELSE "greater_than"

\* PositiveFloat: a float strictly greater than zero.
ValidatePositiveFloat(v) ==
    IF ~IsNum(v) THEN "float_type"
    ELSE IF v.num > 0 THEN "ok" ELSE "greater_than"

\* Optional[float] = Field(0.0, ge=0): None passes, a float must be >= 0.
ValidateTrailingPE(v) ==
    IF IsNone(v) THEN "ok"
    ELSE IF ~IsNum(v) THEN "float_type"
    ELSE IF v.num >= 0 THEN "ok" ELSE "greater_than_equal"

ValidateField(f, v) ==
    IF f \in PositiveFloatFields THEN ValidatePositiveFloat(v)
    ELSE IF f = "trailingPE" THEN ValidateTrailingPE(v)
    ELSE ValidateStr(v)

\* The error list of a ValidationError: one entry per failing field.
FieldErrors(kwargs) ==
    {[loc |-> f, type |-> "missing"] :
        f \in {g \in RequiredFields : g \notin DOMAIN kwargs}}
    \cup
    {[loc |-> f, type |-> ValidateField(f, kwargs[f])] :
        f \in {g \in SchemaFields \cap DOMAIN kwargs :
                  ValidateField(g, kwargs[g]) # "ok"}}

\* Construction that fills an absent trailingPE with None instead of 0.0.
StockMetaDataNoneDefault(kwargs) ==
    IF FieldErrors(kwargs) # {}
    THEN Raise("ValidationError", FieldErrors(kwargs))
    ELSE Return([f \in SchemaFields |->
                    IF f \in DOMAIN kwargs THEN kwargs[f]
                    ELSE IF f = "trailingPE" THEN None ELSE FieldDefault(f)])

\* StockMetaData(**kwargs): keys outside the schema are ignored, absent fields
\* take their defaults, any failing field raises ValidationError.
StockMetaData(kwargs) ==
    IF FieldErrors(kwargs) # {}
    THEN Raise("ValidationError", FieldErrors(kwargs))
    ELSE Return([f \in SchemaFields |->
                    IF f \in DOMAIN kwargs THEN kwargs[f] ELSE FieldDefault(f)])

\* lib/stock_helper.py get_stock_metadata: nothing is caught.
GetStockMetadata(ticker_info) == StockMetaData(ticker_info)

-----------------------------------------------------------------------------
(* Calendar dates <<year, month, day>> and dateutil's relativedelta          *)

IsLeap(y) == (y % 4 = 0 /\ y % 100 # 0) \/ y % 400 = 0

DaysInMonth(y, m) ==
    IF m = 2 THEN (IF IsLeap(y) THEN 29 ELSE 28)
    ELSE IF m \in {4, 6, 9, 11} THEN 30 ELSE 31

Min(a, b) == IF a <= b THEN a ELSE b

DateLess(a, b) ==
    \/ a[1] < b[1]
    \/ a[1] = b[1] /\ a[2] < b[2]
    \/ a[1] = b[1] /\ a[2] = b[2] /\ a[3] < b[3]

\* relativedelta(year=y): the absolute year y, no relative shift.
AbsoluteYear(y) == [years |-> 0, year |-> Num(y)]

\* relativedelta.__neg__: relative fields change sign, absolute fields stay.
NegDelta(rd) == [years |-> 0 - rd.years, year |-> rd.year]

\* relativedelta.__radd__(dt): the absolute year replaces dt's, the relative
\* years are added, and the day is clipped to the length of the month.
DatePlusDelta(dt, rd) ==
    LET y == (IF IsNone(rd.year) THEN dt[1] ELSE rd.year.num) + rd.years
    IN  <<y, dt[2], Min(DaysInMonth(y, dt[2]), dt[3])>>

\* relativedelta.__rsub__(dt): dt + (-rd).
DateMinusDelta(dt, rd) == DatePlusDelta(dt, NegDelta(rd))

\* The year app() passes to relativedelta.
DeltaYear == 2023

\* app(): datetime.datetime.now() - relativedelta(year=2023)
DefaultStartDate(now) == DateMinusDelta(now, AbsoluteYear(DeltaYear))

\* app(): the value of the "End Date" input.
DefaultEndDate(now) == now

-----------------------------------------------------------------------------
(* Data frames: column labels, a date index and one row of cells per date    *)

Frame(columns, index, rows) == [columns |-> columns, index |-> index, rows |-> rows]

NRows(df) == Len(df.index)

Range(s) == {s[i] : i \in DOMAIN s}

ColumnPos(df, name) == CHOOSE j \in DOMAIN df.columns : df.columns[j] = name

\* df[name] of one row (1-based row number).
Cell(df, r, name) == df.rows[r][ColumnPos(df, name)]

CanonicalColumns == <<"Open", "High", "Low", "Close", "Volume">>

\* df[[names]]: the named columns in the order asked for; KeyError when one
\* of them is not a column of df.
SelectColumns(df, names) ==
    IF \E j \in DOMAIN names : names[j] \notin Range(df.columns)
    THEN Raise("KeyError", {names[j] : j \in {k \in DOMAIN names :
                                                names[k] \notin Range(df.columns)}})
    ELSE Return(Frame(names, df.index,
                      [r \in DOMAIN df.rows |->
                          [j \in DOMAIN names |-> df.rows[r][ColumnPos(df, names[j])]]]))

\* df.columns = names: the labels are replaced position by position.
SetColumns(df, names) == Frame(names, df.index, df.rows)

\* Insert row number r into ps, row numbers already ordered by descending date.
RECURSIVE InsertDescending(_, _, _)
InsertDescending(index, ps, r) ==
    IF ps = <<>> THEN <<r>>
    ELSE IF DateLess(index[Head(ps)], index[r])
         THEN <<r>> \o ps
         ELSE <<Head(ps)>> \o InsertDescending(index, Tail(ps), r)

RECURSIVE InsertAscending(_, _, _)
InsertAscending(index, ps, r) ==
    IF ps = <<>> THEN <<r>>
    ELSE IF DateLess(index[r], index[Head(ps)])
         THEN <<r>> \o ps
         ELSE <<Head(ps)>> \o InsertAscending(index, Tail(ps), r)

RECURSIVE OrderDescending(_, _)
OrderDescending(index, n) ==
    IF n = 0 THEN <<>>
    ELSE InsertDescending(index, OrderDescending(index, n - 1), n)

RECURSIVE OrderAscending(_, _)
OrderAscending(index, n) ==
    IF n = 0 THEN <<>>
    ELSE InsertAscending(index, OrderAscending(index, n - 1), n)

Reorder(df, ps) ==
    Frame(df.columns, [i \in DOMAIN ps |-> df.index[ps[i]]],
          [i \in DOMAIN ps |-> df.rows[ps[i]]])

\* sort_index with the default ascending=True.
SortIndexAscending(df) == Reorder(df, OrderAscending(df.index, NRows(df)))

\* df.sort_index(ascending=False): rows by descending date.
SortIndexDescending(df) == Reorder(df, OrderDescending(df.index, NRows(df)))

\* get_stock_data after yf.download: select, relabel, sort.
NormalizeDownload(downloaded) ==
    LET selected == SelectColumns(downloaded, CanonicalColumns)
    IN  IF Raised(selected) THEN selected
        ELSE Return(SortIndexDescending(SetColumns(selected.returned, CanonicalColumns)))

-----------------------------------------------------------------------------
(* app.py calculate_price_difference                                        *)

Abs(n) == IF n < 0 THEN 0 - n ELSE n

RECURSIVE GCD(_, _)
GCD(a, b) == IF b = 0 THEN a ELSE GCD(b, a % b)

\* The float n/d as a fraction in lowest terms with a positive denominator;
\* a float division by zero gives <<1, 0>> (inf), <<-1, 0>> (-inf) or
\* <<0, 0>> (nan) and raises nothing.
Fraction(n, d) ==
    IF d = 0 THEN <<(IF n = 0 THEN 0 ELSE IF n > 0 THEN 1 ELSE 0 - 1), 0>>
    ELSE LET s == IF d < 0 THEN 0 - 1 ELSE 1
             g == GCD(Abs(n), Abs(d))
         IN  <<(s * n) \div g, (s * d) \div g>>

\* The row offset of "one trading year ago".
TradingDaysPerYear == 252

\* stock_data.iloc[i]: position i from the top, or from the bottom when i < 0.
Iloc(df, i) ==
    LET r == IF i >= 0 THEN i + 1 ELSE NRows(df) + i + 1
    IN  IF r < 1 \/ r > NRows(df)
        THEN Raise("IndexError", "single positional indexer is out-of-bounds")
        ELSE Return(r)

\* A reference row one position too early.
PreviousYearRowOffByOne(df) ==
    IF NRows(df) > TradingDaysPerYear THEN Iloc(df, TradingDaysPerYear - 1)
    ELSE Iloc(df, 0 - 2)

\* A reference row chosen with the test len(stock_data) >= 252.
PreviousYearRowAtLeast(df) ==
    IF NRows(df) >= TradingDaysPerYear THEN Iloc(df, TradingDaysPerYear) ELSE Iloc(df, 0 - 1)

\* The row of previous_year_price: iloc[252] if len(stock_data) > 252 else iloc[-1].
PreviousYearRow(df) ==
    IF NRows(df) > TradingDaysPerYear THEN Iloc(df, TradingDaysPerYear) ELSE Iloc(df, 0 - 1)

CalculatePriceDifference(df) ==
    LET latest == Iloc(df, 0)
        previous == PreviousYearRow(df)
    IN  IF Raised(latest) THEN latest
        ELSE IF Raised(previous) THEN previous
        ELSE LET latest_price == Cell(df, latest.returned, "Close")
                 previous_year_price == Cell(df, previous.returned, "Close")
                 price_difference == latest_price - previous_year_price
             IN  Return([price_difference |-> price_difference,
                         percentage_difference |->
                             Fraction(price_difference * 100, previous_year_price)])

-----------------------------------------------------------------------------
(* The provider: quotes per trading day and column                          *)

\* The k-th trading day, as a calendar date (increasing in k).
DateOf(k) ==
    <<DeltaYear + ((k - 1) \div 336), 1 + (((k - 1) \div 28) % 12), 1 + ((k - 1) % 28)>>

ColumnCode(c) ==
    CASE c = "Open" -> 1 [] c = "High" -> 2 [] c = "Low" -> 3
      [] c = "Close" -> 4 [] c = "Volume" -> 5 [] OTHER -> 6

\* The provider's cell for symbol number s, column c, trading day k at
\* revision rev of its data: a different number for every such cell.
Quote(s, c, k, rev) == ColumnCode(c) + 10 * k + 100 * s + 1000 * rev

\* The frame yf.download returns for symbol number s and the trading days ks,
\* in that order.
Download(s, columns, ks, rev) ==
    Frame(columns, [i \in DOMAIN ks |-> DateOf(ks[i])],
          [i \in DOMAIN ks |-> [j \in DOMAIN columns |-> Quote(s, columns[j], ks[i], rev)]])

Injective(s) == \A i, j \in DOMAIN s : i # j => s[i] # s[j]

Orderings(S) == {s \in [1..Cardinality(S) -> S] : Injective(s)}

\* The column sets a download may carry: the canonical five, those plus the
\* adjusted close, and a response that lacks Volume.
ProviderColumnSets ==
    {Range(CanonicalColumns), Range(CanonicalColumns) \cup {"Adj Close"},
     Range(CanonicalColumns) \ {"Volume"}}

ColumnOrders == UNION {Orderings(S) : S \in ProviderColumnSets}

-----------------------------------------------------------------------------
(* Bounds of the model                                                       *)

MaxPrice == 1          \* metadata numbers range over -1..MaxPrice
MaxStrProvided == 1    \* at most this many of the eight string fields are provided
MaxRows == 3           \* rows of a download handed to get_stock_data
MaxOver == 2           \* metric frames have up to TradingDaysPerYear + MaxOver + 1 rows
MaxClose == 2          \* closing prices range over 0..MaxClose
MaxYearsAhead == 2     \* the clock ranges over DeltaYear - 1 .. DeltaYear + MaxYearsAhead
MaxExtra == 0          \* the symbol list has up to DefaultIndex + 1 + MaxExtra entries
MaxPick == 4           \* the user picks among the first MaxPick options
MaxDay == 2            \* the provider holds quotes for trading days 1..MaxDay
MaxVersion == 1        \* the provider revises its data up to MaxVersion times
MaxRuns == 3           \* app() runs up to MaxRuns times

-----------------------------------------------------------------------------
(* Specification of the schema: get_stock_metadata on every provider mapping *)

Absent == [absent |-> TRUE]

SampleText ==
    [longName |-> "Reliance Industries", symbol |-> "RELIANCE.NS",
     longBusinessSummary |-> "Energy and retail", industry |-> "Oil & Gas",
     industryKey |-> "oil-gas", sector |-> "Energy", sectorKey |-> "energy",
     website |-> "https://example.com"]

MetaNumbers == {Num(n) : n \in (0 - 1)..MaxPrice}

\* The mapping with the given choice per key; a key whose choice is Absent is
\* not in the mapping.  "marketCap" is a key the schema does not know.
InfoMapping(choice) ==
    [k \in {j \in DOMAIN choice : choice[j] # Absent} |-> choice[k]]

InfoChoices ==
    {[k \in SchemaFields \cup {"marketCap"} |->
         CASE k = "uuid" -> u
           [] k = "currentPrice" -> cp
           [] k = "fiftyTwoWeekLow" -> lo
           [] k = "fiftyTwoWeekHigh" -> hi
           [] k = "trailingPE" -> pe
           [] k = "marketCap" -> mc
           [] OTHER -> IF k \in provided THEN Str(SampleText[k]) ELSE Absent] :
        u \in {Absent, Str("uuid-1")},
        cp \in {Absent} \cup MetaNumbers,
        lo \in {Absent} \cup MetaNumbers,
        hi \in {Absent} \cup MetaNumbers,
        pe \in {Absent, None} \cup MetaNumbers,
        mc \in {Absent, Num(5)},
        provided \in {P \in SUBSET StrDefaultFields : Cardinality(P) <= MaxStrProvided}}

\* f"{x:.2f}": a number formats to its value in hundredths, anything that
\* is not a number raises TypeError.
Format2f(v) ==
    IF IsNum(v) THEN Return([hundredths |-> 100 * v.num])
    ELSE Raise("TypeError", "unsupported format string passed to NoneType.__format__")

InitMeta ==
    /\ info \in {InfoMapping(c) : c \in InfoChoices}
    /\ stock_md = NotCalled
    /\ response = Unused /\ stock_data = Unused /\ price_change = Unused
    /\ today = Unused /\ date_inputs = Unused
    /\ nse_symbols = Unused /\ version = Unused
    /\ list_cache = Unused /\ data_cache = Unused /\ widgets = Unused
    /\ display = Unused /\ runs = Unused

get_stock_metadata ==
    /\ stock_md = NotCalled
    /\ stock_md' = GetStockMetadata(info)
    /\ UNCHANGED <<info, response, stock_data, price_change, today, date_inputs>>
    /\ UNCHANGED pageVars

NextMeta == get_stock_metadata

SpecMeta == InitMeta /\ [][NextMeta]_vars

-----------------------------------------------------------------------------
(* Specification of normalization: get_stock_data on every download         *)

IndexOrders ==
    UNION {{ks \in [1..n -> 1..MaxRows] : Injective(ks)} : n \in 0..MaxRows}

InitData ==
    /\ response \in {Download(1, cols, ks, 0) : cols \in ColumnOrders, ks \in IndexOrders}
    /\ stock_data = NotCalled
    /\ info = Unused /\ stock_md = Unused /\ price_change = Unused
    /\ today = Unused /\ date_inputs = Unused
    /\ nse_symbols = Unused /\ version = Unused
    /\ list_cache = Unused /\ data_cache = Unused /\ widgets = Unused
    /\ display = Unused /\ runs = Unused

get_stock_data ==
    /\ stock_data = NotCalled
    /\ stock_data' = NormalizeDownload(response)
    /\ UNCHANGED <<info, stock_md, response, price_change, today, date_inputs>>
    /\ UNCHANGED pageVars

NextData == get_stock_data

SpecData == InitData /\ [][NextData]_vars

-----------------------------------------------------------------------------
(* Specification of the metric: calculate_price_difference on frames of     *)
(* every length up to past the trading-year offset                           *)

Closes == 0..MaxClose

\* A newest-first frame of n rows whose closes at the first row, at offsets
\* 251 and 252 and at the last row are c0, c251, c252 and cl; every other
\* close is MaxClose + 1.
MetricFrame(n, c0, c251, c252, cl) ==
    Frame(CanonicalColumns, [i \in 1..n |-> DateOf(n + 1 - i)],
          [i \in 1..n |->
              LET close == IF i = 1 THEN c0
                           ELSE IF i = n THEN cl
                           ELSE IF i = TradingDaysPerYear THEN c251
                           ELSE IF i = TradingDaysPerYear + 1 THEN c252
                           ELSE MaxClose + 1
              IN  <<close, close + 1, close, close, 1000 + i>>])

InitCalc ==
    /\ stock_data \in {MetricFrame(n, c0, c251, c252, cl) :
                          n \in 0..(TradingDaysPerYear + MaxOver + 1),
                          c0 \in Closes, c251 \in Closes, c252 \in Closes, cl \in Closes}
    /\ price_change = NotCalled
    /\ info = Unused /\ stock_md = Unused /\ response = Unused
    /\ today = Unused /\ date_inputs = Unused
    /\ nse_symbols = Unused /\ version = Unused
    /\ list_cache = Unused /\ data_cache = Unused /\ widgets = Unused
    /\ display = Unused /\ runs = Unused

calculate_price_difference ==
    /\ price_change = NotCalled
    /\ price_change' = CalculatePriceDifference(stock_data)
    /\ UNCHANGED <<info, stock_md, response, stock_data, today, date_inputs>>
    /\ UNCHANGED pageVars

NextCalc == calculate_price_difference

SpecCalc == InitCalc /\ [][NextCalc]_vars

-----------------------------------------------------------------------------
(* Specification of the date inputs: their defaults on every day of the     *)
(* years around DeltaYear                                                    *)

InitDates ==
    /\ today \in {dt \in {<<y, m, d>> : y \in (DeltaYear - 1)..(DeltaYear + MaxYearsAhead),
                                        m \in 1..12, d \in 1..31} :
                     dt[3] <= DaysInMonth(dt[1], dt[2])}
    /\ date_inputs = NotCalled
    /\ info = Unused /\ stock_md = Unused /\ response = Unused
    /\ stock_data = Unused /\ price_change = Unused
    /\ nse_symbols = Unused /\ version = Unused
    /\ list_cache = Unused /\ data_cache = Unused /\ widgets = Unused
    /\ display = Unused /\ runs = Unused

date_input_defaults ==
    /\ date_inputs = NotCalled
    /\ date_inputs' = [start_date |-> DefaultStartDate(today),
                       end_date |-> DefaultEndDate(today)]
    /\ UNCHANGED <<info, stock_md, response, stock_data, price_change, today>>
    /\ UNCHANGED pageVars

NextDates == date_input_defaults

SpecDates == InitDates /\ [][NextDates]_vars

-----------------------------------------------------------------------------
(* The page: app() and what it calls                                        *)

Some(v) == [value |-> v]
NotRendered == [not_rendered |-> TRUE]

\* get_stock_list: every symbol gets the ".NS" suffix, in the provider's order.
GetStockList(all_stocks) == [i \in DOMAIN all_stocks |-> <<all_stocks[i], ".NS">>]

\* The index app() passes to st.sidebar.selectbox.
DefaultIndex == 20

\* st.selectbox(label, options, index): with options, an index outside them
\* raises; without options the value is None; else the value the user chose,
\* or the option at index while the user has chosen nothing.
Selectbox(options, index, chosen) ==
    IF Len(options) > 0 /\ ~(0 <= index /\ index < Len(options))
    THEN Raise("StreamlitAPIException", "Selectbox index must be between 0 and length of options")
    ELSE IF Len(options) = 0 THEN Return(None)
    ELSE IF IsNone(chosen) THEN Return(Some(options[index + 1]))
    ELSE Return(chosen)

\* st.date_input(label, value): the date the user chose, else the default.
DateInput(default, chosen) == IF IsNone(chosen) THEN default ELSE chosen.value

\* What the provider has on symbol number s.
ProviderProfile(s) ==
    CASE s % 4 = 1 -> "listed"       \* quotes and complete company info
      [] s % 4 = 2 -> "no_rows"      \* no quotes in any range, sparse info
      [] s % 4 = 3 -> "null_pe"      \* quotes, info with "trailingPE": None
      [] OTHER -> "no_price"         \* quotes, info without "currentPrice"

\* yf.Ticker(symbol).info at revision rev.
ProviderInfo(s, rev) ==
    InfoMapping(
        [k \in SchemaFields \cup {"marketCap"} |->
            CASE k = "uuid" -> Str("uuid-1")
              [] k = "currentPrice" ->
                    IF ProviderProfile(s) = "no_price" THEN Absent
                    ELSE Num(Quote(s, "Close", MaxDay, rev))
              [] k = "fiftyTwoWeekLow" -> Num(Quote(s, "Low", 1, rev))
              [] k = "fiftyTwoWeekHigh" -> Num(Quote(s, "High", MaxDay, rev))
              [] k = "trailingPE" ->
                    IF ProviderProfile(s) = "null_pe" THEN None
                    ELSE IF ProviderProfile(s) = "no_rows" THEN Absent
                    ELSE Num(12 + rev)
              [] k = "marketCap" -> Num(5)
              [] k \in {"longName", "sector", "website"} ->
                    IF ProviderProfile(s) = "no_rows" THEN Absent ELSE Str(SampleText[k])
              [] OTHER -> Absent])

\* yf.download(symbol, start, end) at revision rev: the quotes of the trading
\* days from start up to, not including, end, oldest first.
ProviderDownload(symbol, start, end, rev) ==
    LET days == IF ProviderProfile(symbol[1]) = "no_rows" THEN {}
                ELSE {k \in 1..MaxDay :
                         ~DateLess(DateOf(k), start) /\ DateLess(DateOf(k), end)}
        ks == [i \in 1..Cardinality(days) |->
                  CHOOSE k \in days : Cardinality({j \in days : j < k}) = i - 1]
    IN  Download(symbol[1], <<"Open", "High", "Low", "Close", "Adj Close", "Volume">>,
                 ks, rev)

\* get_stock_data without its decorator.
GetStockData(symbol, start_date, end_date, rev) ==
    NormalizeDownload(ProviderDownload(symbol, start_date, end_date, rev))

EmptyCache == [a \in {} |-> None]

Memoize(cache, args, result) ==
    [a \in DOMAIN cache \cup {args} |-> IF a = args THEN result ELSE cache[a]]

\* A get_stock_data that calls the provider on every call.
UncachedGetStockData(cache, args, rev) ==
    LET result == GetStockData(args[1], args[2], args[3], rev)
    IN  [result |-> result,
         cache |-> IF Returned(result) THEN Memoize(cache, args, result) ELSE cache]

\* @st.cache_data get_stock_data: the value memoized for these arguments if
\* there is one, else the function's value, memoized when it returns.
CachedGetStockData(cache, args, rev) ==
    IF args \in DOMAIN cache THEN [result |-> cache[args], cache |-> cache]
    ELSE LET result == GetStockData(args[1], args[2], args[3], rev)
         IN  [result |-> result,
              cache |-> IF Returned(result) THEN Memoize(cache, args, result) ELSE cache]

\* @st.cache_data get_stock_list: computed once, then the memoized list.
CachedGetStockList(cache, all_stocks) ==
    IF IsNone(cache) THEN GetStockList(all_stocks) ELSE cache.value

ColumnOf(df, name) == [r \in DOMAIN df.rows |-> Cell(df, r, name)]

\* charts(stock_data, chart_type)
Charts(df, chart_type) ==
    IF chart_type = "Candle"
    THEN [kind |-> "Candlestick", x |-> df.index, open |-> ColumnOf(df, "Open"),
          high |-> ColumnOf(df, "High"), low |-> ColumnOf(df, "Low"),
          close |-> ColumnOf(df, "Close"), xaxis_rangeslider_visible |-> FALSE]
    ELSE IF chart_type = "Area"
    THEN [kind |-> "area", x |-> df.index, y |-> ColumnOf(df, "High")]
    ELSE [kind |-> "Scatter", x |-> df.index, y |-> ColumnOf(df, "High")]

\* stock_data.to_csv(index=True): a header line, then one line per row.
ToCsv(df) ==
    [header |-> <<"Date">> \o df.columns,
     lines |-> [r \in DOMAIN df.rows |-> <<df.index[r]>> \o df.rows[r]]]

\* f"{x:+.2f}" of a float kept as a fraction: hundredths, rounded half up.
FormatSigned2f(x) ==
    IF x[2] = 0 THEN [text |-> IF x[1] = 0 THEN "+nan" ELSE IF x[1] > 0 THEN "+inf" ELSE "-inf"]
    ELSE [hundredths |-> (200 * x[1] + x[2]) \div (2 * x[2])]

\* The five st.metric tiles, in the order app() formats them; the first
\* format that raises ends the run with the tiles before it on the page.
MetricTiles(metadata, change) ==
    LET values == <<metadata["currentPrice"], Num(change.price_difference),
                    metadata["fiftyTwoWeekHigh"], metadata["fiftyTwoWeekLow"],
                    metadata["trailingPE"]>>
        labels == <<"Close Price", "Price Difference", "52-Week High", "52-Week Low",
                    "PE Ratio">>
        bad == {i \in 1..5 : Raised(Format2f(values[i]))}
        stop == IF bad = {} THEN 6 ELSE CHOOSE i \in bad : \A j \in bad : i <= j
    IN  [tiles |-> [i \in 1..(stop - 1) |->
                       [label |-> labels[i], value |-> Format2f(values[i]).returned,
                        delta |-> IF i = 2 THEN FormatSigned2f(change.percentage_difference)
                                  ELSE NotRendered]],
         raised |-> IF bad = {} THEN None ELSE Format2f(values[stop])]

\* The page a run leaves when it stops before it has a symbol.
BlankPage(status) ==
    [status |-> status, symbol |-> None, start_date |-> NotRendered,
     end_date |-> NotRendered, stock_data |-> NotRendered, metadata |-> NotRendered,
     sidebar |-> NotRendered, price_change |-> NotRendered, tiles |-> <<>>,
     chart |-> NotRendered, table |-> NotRendered, download |-> NotRendered]

\* app() from the export back to the chart: reached when all five tiles
\* formatted.
PageWithTiles(w, page, symbol, df, tiles) ==
    IF ~IsNone(tiles.raised)
    THEN [page EXCEPT !.status = tiles.raised.raised, !.tiles = tiles.tiles]
    ELSE [page EXCEPT !.status = "rendered",
                      !.tiles = tiles.tiles,
                      !.chart = Charts(df, w.chart_type),
                      !.table = Some(df),
                      !.download = [file_name |-> <<symbol, "_stock_data.csv">>,
                                    data |-> ToCsv(df), mime |-> "text/csv"]]

\* app() after calculate_price_difference: an exception of the metric ends
\* the run, else the tiles are formatted.
PageWithMetric(w, page, symbol, df, md, change) ==
    IF Raised(change)
    THEN [page EXCEPT !.status = change.raised, !.price_change = change]
    ELSE PageWithTiles(w, [page EXCEPT !.price_change = change], symbol, df,
                       MetricTiles(md, change.returned))

\* app() after the two fetches: an exception of either ends the run; else
\* "stock_data is not None" holds for every frame, the sidebar texts are
\* written and the metric is computed.
PageWithData(w, page, symbol, stock, metadata) ==
    IF Raised(stock) THEN [page EXCEPT !.status = stock.raised]
    ELSE IF Raised(metadata)
    THEN [page EXCEPT !.status = metadata.raised, !.metadata = metadata]
    ELSE PageWithMetric(
             w,
             [page EXCEPT !.metadata = metadata,
                          !.sidebar = [longName |-> metadata.returned["longName"],
                                       sector |-> metadata.returned["sector"],
                                       website |-> metadata.returned["website"]]],
             symbol, stock.returned, metadata.returned,
             CalculatePriceDifference(stock.returned))

\* app() under "if symbol:" with what the two fetches gave.
PageForSymbol(w, symbols, symbol, start_date, end_date, fetched, metadata) ==
    [display |-> PageWithData(w,
                              [BlankPage("running") EXCEPT
                                  !.symbol = Some(symbol),
                                  !.start_date = Some(start_date),
                                  !.end_date = Some(end_date),
                                  !.stock_data = fetched.result],
                              symbol, fetched.result, metadata),
     list_cache |-> Some(symbols),
     data_cache |-> fetched.cache]

\* app() after the three sidebar widgets: with a symbol, both fetches.
PageForSelection(w, symbols, selected, start_date, end_date, dcache, rev) ==
    IF Raised(selected)
    THEN [display |-> BlankPage(selected.raised),
          list_cache |-> Some(symbols), data_cache |-> dcache]
    ELSE IF IsNone(selected.returned)
    THEN [display |-> [BlankPage("no symbol") EXCEPT
                          !.start_date = Some(start_date),
                          !.end_date = Some(end_date)],
          list_cache |-> Some(symbols), data_cache |-> dcache]
    ELSE PageForSymbol(w, symbols, selected.returned.value, start_date, end_date,
                       CachedGetStockData(
                           dcache, <<selected.returned.value, start_date, end_date>>, rev),
                       GetStockMetadata(ProviderInfo(selected.returned.value[1], rev)))

\* app() with the symbol list in hand: the selectbox and the two date inputs.
PageForSymbols(w, symbols, dcache, now, rev) ==
    PageForSelection(w, symbols, Selectbox(symbols, DefaultIndex, w.symbol),
                     DateInput(DefaultStartDate(now), w.start_date),
                     DateInput(DefaultEndDate(now), w.end_date), dcache, rev)

\* One run of app(): the page it leaves and the two memo caches after it.
AppRun(w, lcache, dcache, now, rev, all_stocks) ==
    PageForSymbols(w, CachedGetStockList(lcache, all_stocks), dcache, now, rev)

-----------------------------------------------------------------------------
(* Specification of the page: runs of app() as the user changes the widgets *)
(* and the provider revises its data                                         *)

funcVars == <<info, stock_md, response, stock_data, price_change, date_inputs>>

Init ==
    /\ nse_symbols \in {[i \in 1..n |-> i] : n \in 0..(DefaultIndex + 1 + MaxExtra)}
    /\ today = <<DeltaYear + 1, 1, 1>>
    /\ version = 0
    /\ list_cache = None
    /\ data_cache = EmptyCache
    /\ widgets = [symbol |-> None, start_date |-> None, end_date |-> None,
                  chart_type |-> "Line"]
    /\ display = NotCalled
    /\ runs = 0
    /\ info = Unused /\ stock_md = Unused /\ response = Unused
    /\ stock_data = Unused /\ price_change = Unused /\ date_inputs = Unused

\* The script runs top to bottom with the widget state w.
Run(w) ==
    LET done == AppRun(w, list_cache, data_cache, today, version, nse_symbols)
    IN  /\ runs < MaxRuns
        /\ runs' = runs + 1
        /\ widgets' = w
        /\ display' = done.display
        /\ list_cache' = done.list_cache
        /\ data_cache' = done.data_cache
        /\ UNCHANGED <<nse_symbols, version, today>>
        /\ UNCHANGED funcVars

\* The browser opens the page, or the user reruns it.
OpenOrRerun == Run(widgets)

WidgetsShown == display # NotCalled /\ display.start_date # NotRendered

\* The user picks another symbol in the selectbox.
PickSymbol ==
    /\ WidgetsShown
    /\ \E i \in 1..Min(MaxPick, Len(list_cache.value)) :
          /\ display.symbol # Some(list_cache.value[i])
          /\ Run([widgets EXCEPT !.symbol = Some(list_cache.value[i])])

\* The user picks another start date.
PickStartDate ==
    /\ WidgetsShown
    /\ \E k \in 1..(MaxDay + 1) :
          /\ display.start_date # Some(DateOf(k))
          /\ Run([widgets EXCEPT !.start_date = Some(DateOf(k))])

\* The user picks another end date.
PickEndDate ==
    /\ WidgetsShown
    /\ \E k \in 1..(MaxDay + 1) :
          /\ display.end_date # Some(DateOf(k))
          /\ Run([widgets EXCEPT !.end_date = Some(DateOf(k))])

\* The user picks another chart type in the pills.
PickChartType ==
    /\ display # NotCalled /\ display.chart # NotRendered
    /\ \E t \in {"Line", "Candle", "Area"} :
          /\ widgets.chart_type # t
          /\ Run([widgets EXCEPT !.chart_type = t])

\* The provider revises its quotes and company info.
ProviderUpdate ==
    /\ version < MaxVersion
    /\ version' = version + 1
    /\ UNCHANGED <<nse_symbols, today, list_cache, data_cache, widgets, display, runs>>
    /\ UNCHANGED funcVars

Next ==
    \/ OpenOrRerun
    \/ PickSymbol
    \/ PickStartDate
    \/ PickEndDate
    \/ PickChartType
    \/ ProviderUpdate

Spec == Init /\ [][Next]_vars

-----------------------------------------------------------------------------
(* Claims about the schema, stated for SpecMeta                          *)

Provided(f) == f \in DOMAIN info

\* C4: a mapping that lacks a required key, or carries a currentPrice,
\* fiftyTwoWeekLow or fiftyTwoWeekHigh <= 0, or a trailingPE < 0, makes
\* get_stock_metadata raise ValidationError with a "missing" entry for each
\* absent key and an out-of-range entry for each bad value; no record results.
C4_InvalidMappingRaises ==
    stock_md # NotCalled =>
        /\ \A f \in {"uuid", "currentPrice", "fiftyTwoWeekLow", "fiftyTwoWeekHigh"} :
              ~Provided(f) =>
                  /\ Raised(stock_md) /\ ~Returned(stock_md)
                  /\ stock_md.raised = "ValidationError"
                  /\ [loc |-> f, type |-> "missing"] \in stock_md.detail
        /\ \A f \in {"currentPrice", "fiftyTwoWeekLow", "fiftyTwoWeekHigh"} :
              (Provided(f) /\ IsNum(info[f]) /\ info[f].num <= 0) =>
                  /\ Raised(stock_md) /\ ~Returned(stock_md)
                  /\ stock_md.raised = "ValidationError"
                  /\ [loc |-> f, type |-> "greater_than"] \in stock_md.detail
        /\ (Provided("trailingPE") /\ IsNum(info["trailingPE"])
               /\ info["trailingPE"].num < 0) =>
                  /\ Raised(stock_md) /\ ~Returned(stock_md)
                  /\ stock_md.raised = "ValidationError"
                  /\ [loc |-> "trailingPE", type |-> "greater_than_equal"]
                        \in stock_md.detail

C4_Witness ==
    /\ Raised(stock_md)
    /\ ~Provided("uuid")
    /\ Provided("currentPrice") /\ info["currentPrice"] = Num(0)
    /\ Provided("fiftyTwoWeekLow") /\ info["fiftyTwoWeekLow"] = Num(1)
    /\ Provided("trailingPE") /\ info["trailingPE"] = Num(0 - 1)

ValidRequired ==
    /\ Provided("uuid") /\ IsStr(info["uuid"])
    /\ \A f \in {"currentPrice", "fiftyTwoWeekLow", "fiftyTwoWeekHigh"} :
          Provided(f) /\ IsNum(info[f]) /\ info[f].num > 0

ValidOptional ==
    /\ Provided("trailingPE") =>
          \/ IsNone(info["trailingPE"])
          \/ IsNum(info["trailingPE"]) /\ info["trailingPE"].num >= 0
    /\ \A f \in StrDefaultFields : Provided(f) => IsStr(info[f])

\* C5: a mapping with uuid, strictly positive currentPrice, fiftyTwoWeekLow
\* and fiftyTwoWeekHigh and no invalid optional value yields a record of
\* exactly the schema's fields: a provided field keeps its value, an absent
\* trailingPE is 0.0, an absent string field is "", other keys are dropped.
C5_ValidMappingConstructs ==
    (stock_md # NotCalled /\ ValidRequired /\ ValidOptional) =>
        /\ Returned(stock_md)
        /\ DOMAIN stock_md.returned = SchemaFields
        /\ \A f \in SchemaFields :
              stock_md.returned[f] =
                  IF Provided(f) THEN info[f]
                  ELSE IF f = "trailingPE" THEN Num(0) ELSE Str("")

C5_Witness ==
    /\ Returned(stock_md)
    /\ Provided("marketCap")
    /\ ~Provided("trailingPE")
    /\ ~Provided("sector")
    /\ Provided("longName")
    /\ stock_md.returned["longName"] = Str("Reliance Industries")

\* C9: every record validation accepts has a trailingPE that is a number >= 0,
\* never None, so formatting it with two decimals cannot fail.
C9_TrailingPEIsNumber ==
    Returned(stock_md) =>
        /\ IsNum(stock_md.returned["trailingPE"])
        /\ stock_md.returned["trailingPE"].num >= 0
        /\ Returned(Format2f(stock_md.returned["trailingPE"]))

-----------------------------------------------------------------------------
(* Claims about normalization, stated for SpecData                       *)

HasCanonicalColumns ==
    \A c \in {"Open", "High", "Low", "Close", "Volume"} :
        \E q \in DOMAIN response.columns : response.columns[q] = c

\* C6: for a download in any row order with any extra columns and distinct
\* dates, get_stock_data returns exactly the columns Open, High, Low, Close,
\* Volume, exactly the downloaded rows with every value under its own column
\* name, in strictly descending order of date.
C6_NormalizedSeries ==
    (stock_data # NotCalled /\ HasCanonicalColumns) =>
        /\ Returned(stock_data)
        /\ LET out == stock_data.returned
           IN  /\ out.columns = <<"Open", "High", "Low", "Close", "Volume">>
               /\ Len(out.index) = Len(response.index)
               /\ Len(out.rows) = Len(out.index)
               /\ \A r \in DOMAIN response.index :
                     \E i \in DOMAIN out.index : out.index[i] = response.index[r]
               /\ \A i \in DOMAIN out.index :
                     /\ Len(out.rows[i]) = 5
                     /\ \E r \in DOMAIN response.index :
                           /\ response.index[r] = out.index[i]
                           /\ \A j \in 1..5 : \A q \in DOMAIN response.columns :
                                 response.columns[q] = out.columns[j] =>
                                     out.rows[i][j] = response.rows[r][q]
               /\ \A i \in DOMAIN out.index :
                     i > 1 => DateLess(out.index[i], out.index[i - 1])

C6_Witness ==
    /\ stock_data # NotCalled
    /\ Returned(stock_data)
    /\ response.columns = <<"Adj Close", "Close", "High", "Low", "Open", "Volume">>
    /\ Len(response.index) >= 3
    /\ DateLess(response.index[2], response.index[3])
    /\ DateLess(response.index[2], response.index[1])
    /\ stock_data.returned.rows[1] # response.rows[1]

-----------------------------------------------------------------------------
(* Claims about the metric, stated for SpecCalc                          *)

\* The close of the row at 0-based offset i of the frame handed to the metric.
CloseAtOffset(i) == stock_data.rows[i + 1][4]

LastOffset == Len(stock_data.rows) - 1

NaN == <<0, 0>>

\* x is the float (difference / reference) * 100.
IsPercentage(x, difference, reference) ==
    IF reference = 0
    THEN x = <<(IF difference = 0 THEN 0 ELSE IF difference > 0 THEN 1 ELSE 0 - 1), 0>>
    ELSE /\ x[2] > 0
         /\ x[1] * reference = 100 * difference * x[2]
         /\ \A g \in 2..x[2] : ~(x[1] % g = 0 /\ x[2] % g = 0)

\* C2 as stated: with more than 252 rows the reference is the close at
\* offset 251.
C2_ReferenceAtOffset251 ==
    (price_change # NotCalled /\ Len(stock_data.rows) > 252) =>
        /\ Returned(price_change)
        /\ price_change.returned.price_difference = CloseAtOffset(0) - CloseAtOffset(251)
        /\ IsPercentage(price_change.returned.percentage_difference,
                        CloseAtOffset(0) - CloseAtOffset(251), CloseAtOffset(251))

\* C2 amended: with more than 252 rows the reference is the close at offset
\* 252: absoluteDifference = close[0] - close[252] and percentageDifference =
\* (absoluteDifference / close[252]) * 100.
C2_ReferenceAtOffset252 ==
    (price_change # NotCalled /\ Len(stock_data.rows) > 252) =>
        /\ Returned(price_change)
        /\ price_change.returned.price_difference = CloseAtOffset(0) - CloseAtOffset(252)
        /\ IsPercentage(price_change.returned.percentage_difference,
                        CloseAtOffset(0) - CloseAtOffset(252), CloseAtOffset(252))

C2_Witness ==
    /\ price_change # NotCalled
    /\ Len(stock_data.rows) > 253
    /\ CloseAtOffset(0) = 2 /\ CloseAtOffset(251) = 0 /\ CloseAtOffset(252) = 1
    /\ price_change.returned.price_difference = 1
    /\ price_change.returned.percentage_difference = <<100, 1>>

\* C3 as stated: with 1 to 252 rows the reference is the close of the last
\* row, and a one-row series yields difference 0 and percentage 0.
C3_ReferenceIsLastRow ==
    (price_change # NotCalled /\ Len(stock_data.rows) >= 1 /\ Len(stock_data.rows) <= 252) =>
        /\ Returned(price_change)
        /\ price_change.returned.price_difference = CloseAtOffset(0) - CloseAtOffset(LastOffset)
        /\ IsPercentage(price_change.returned.percentage_difference,
                        CloseAtOffset(0) - CloseAtOffset(LastOffset), CloseAtOffset(LastOffset))
        /\ Len(stock_data.rows) = 1 =>
              /\ price_change.returned.price_difference = 0
              /\ price_change.returned.percentage_difference = <<0, 1>>

\* C3 amended: with 1 to 252 rows the reference is the close of the last row:
\* absoluteDifference = close[0] - close[last], percentageDifference =
\* (absoluteDifference / close[last]) * 100; a one-row series yields
\* difference 0, and percentage 0 when its close is not zero (nan when it is).
C3_ReferenceIsLastRowNonZero ==
    (price_change # NotCalled /\ Len(stock_data.rows) >= 1 /\ Len(stock_data.rows) <= 252) =>
        /\ Returned(price_change)
        /\ price_change.returned.price_difference = CloseAtOffset(0) - CloseAtOffset(LastOffset)
        /\ IsPercentage(price_change.returned.percentage_difference,
                        CloseAtOffset(0) - CloseAtOffset(LastOffset), CloseAtOffset(LastOffset))
        /\ Len(stock_data.rows) = 1 =>
              /\ price_change.returned.price_difference = 0
              /\ price_change.returned.percentage_difference =
                    IF CloseAtOffset(0) # 0 THEN <<0, 1>> ELSE NaN

C3_Witness ==
    /\ price_change # NotCalled
    /\ Len(stock_data.rows) = 252
    /\ CloseAtOffset(0) = 1 /\ CloseAtOffset(251) = 2
    /\ price_change.returned.price_difference = 0 - 1
    /\ price_change.returned.percentage_difference = <<0 - 50, 1>>

-----------------------------------------------------------------------------
(* Claims about the date inputs, stated for SpecDates                    *)

\* C8: on any day the start-date input defaults to the date one year before
\* today and the end-date input defaults to today.
C8_DefaultsOneYearBack ==
    date_inputs # NotCalled =>
        /\ date_inputs.start_date =
              <<today[1] - 1, today[2],
                IF today[2] = 2 /\ today[3] = 29 THEN 28 ELSE today[3]>>
        /\ date_inputs.end_date = today

-----------------------------------------------------------------------------
(* Claims about the page, stated for Spec                                 *)

ExceptionClasses ==
    {"IndexError", "KeyError", "TypeError", "ValidationError", "StreamlitAPIException"}

\* The last run had a symbol, fetched a series of zero rows and validated
\* the metadata.
RanOnEmptySeries ==
    /\ display # NotCalled
    /\ display.symbol # None
    /\ Returned(display.stock_data)
    /\ Len(display.stock_data.returned.index) = 0
    /\ Returned(display.metadata)

\* C1: a run with a symbol whose series has zero rows skips the price-change
\* computation, the chart, the table and the export and ends without raising.
C1_EmptySeriesEndsQuietly ==
    RanOnEmptySeries =>
        /\ display.status \notin ExceptionClasses
        /\ display.price_change = NotRendered
        /\ display.tiles = <<>>
        /\ display.chart = NotRendered
        /\ display.table = NotRendered
        /\ display.download = NotRendered

\* C10: with a non-empty symbol list the selectbox's fixed index is a position
\* of the list, so the run reaches the fetches with a symbol of the list.
C10_DefaultIndexInList ==
    (display # NotCalled /\ Len(nse_symbols) > 0) =>
        /\ display.status # "StreamlitAPIException"
        /\ display.symbol # None
        /\ \E i \in DOMAIN list_cache.value : display.symbol = Some(list_cache.value[i])
        /\ display.stock_data # NotRendered

\* The selection a run works with: the user's choice, else the default.
SelectionShown(page, w) ==
    /\ page.symbol = IF IsNone(w.symbol) THEN Some(<<nse_symbols[21], ".NS">>) ELSE w.symbol
    /\ page.start_date = IF IsNone(w.start_date)
                         THEN Some(<<2023, today[2],
                                     IF today[2] = 2 /\ today[3] = 29 THEN 28 ELSE today[3]>>)
                         ELSE w.start_date
    /\ page.end_date = IF IsNone(w.end_date) THEN Some(today) ELSE w.end_date

\* C7 as stated: every run with a symbol shows the series and the metadata
\* the provider returns at that moment for the current (symbol, startDate,
\* endDate), and the metric computed from that series.
C7_RunShowsProviderData ==
    [][(runs' # runs /\ display'.symbol # None) =>
          /\ SelectionShown(display', widgets')
          /\ display'.stock_data =
                NormalizeDownload(ProviderDownload(display'.symbol.value,
                                                   display'.start_date.value,
                                                   display'.end_date.value, version'))
          /\ Returned(display'.stock_data) =>
                display'.metadata =
                    GetStockMetadata(ProviderInfo(display'.symbol.value[1], version'))
          /\ display'.price_change # NotRendered =>
                display'.price_change =
                    CalculatePriceDifference(
                        NormalizeDownload(
                            ProviderDownload(display'.symbol.value,
                                             display'.start_date.value,
                                             display'.end_date.value,
                                             version')).returned)]_vars

\* C7 amended: every run with a symbol re-fetches the metadata and recomputes
\* the metric from the series it shows; the series is fetched from the
\* provider only when no earlier run asked for the same (symbol, startDate,
\* endDate), is memoized then, and a later run with the same arguments shows
\* the memoized series whatever the provider returns at that moment.
C7_RunShowsMemoizedSeries ==
    [][(runs' # runs /\ display'.symbol # None) =>
          LET args == <<display'.symbol.value, display'.start_date.value,
                        display'.end_date.value>>
          IN  /\ SelectionShown(display', widgets')
              /\ display'.stock_data =
                    IF args \in DOMAIN data_cache THEN data_cache[args]
                    ELSE NormalizeDownload(
                             ProviderDownload(args[1], args[2], args[3], version'))
              /\ args \in DOMAIN data_cache'
              /\ data_cache'[args] = display'.stock_data
              /\ \A a \in DOMAIN data_cache :
                    a \in DOMAIN data_cache' /\ data_cache'[a] = data_cache[a]
              /\ Returned(display'.stock_data) =>
                    display'.metadata =
                        GetStockMetadata(ProviderInfo(display'.symbol.value[1], version'))
              /\ display'.price_change # NotRendered =>
                    display'.price_change =
                        CalculatePriceDifference(display'.stock_data.returned)]_vars

\* A run after a revision shows fresh metadata beside a series the provider
\* no longer returns.
C7_Witness ==
    /\ display # NotCalled
    /\ display.status = "rendered"
    /\ version > 0
    /\ display.metadata = GetStockMetadata(ProviderInfo(display.symbol.value[1], version))
    /\ display.stock_data #
          NormalizeDownload(ProviderDownload(display.symbol.value, display.start_date.value,
                                             display.end_date.value, version))
    /\ display.table = Some(display.stock_data.returned)

====
